---- MODULE Spec2Model ----
(***************************************************************************)
(* Model of kudu's ThreadPool (src/util/threadpool.cc) and of the          *)
(* FutureTask / TaskExecutor layer on top of it (src/util/task_executor.cc).*)
(*                                                                         *)
(* Every ThreadPool method runs under the single pool mutex lock_, so each *)
(* action below is one critical section: from acquiring lock_ to the point *)
(* where the code releases it (return, unlock, or a condition-variable     *)
(* wait).  The wait sets of the three condition variables are the sets of  *)
(* threads whose pc says they are blocked in the corresponding wait.       *)
(*                                                                         *)
(* Threads of one kind are anonymous: the workers are kept as a bag of     *)
(* per-thread records and the Shutdown callers as counts per position.     *)
(* Wait / TimedWait only read the pool, so one observing caller stands for *)
(* any number of them.                                                     *)
(***************************************************************************)
EXTENDS Integers, Sequences, FiniteSets, TLC

\* ---- bounds of the model ------------------------------------------------
\* largest min_threads / max_threads a pool is built with
MaxThreads == 2
\* number of Submit calls that are accepted; also the largest max_queue_size
MaxSubmits == 2
\* number of threads that call Shutdown
NumShutdownCallers == 2
\* number of AddListener calls made on one Future
MaxListeners == 2

Ids == 1 .. MaxSubmits

VARIABLES
  min_threads,        \* ThreadPool::min_threads_
  max_threads,        \* ThreadPool::max_threads_
  max_queue_size,     \* ThreadPool::max_queue_size_
  pool_status,        \* ThreadPool::pool_status_
  num_threads,        \* ThreadPool::num_threads_
  active_threads,     \* ThreadPool::active_threads_
  queue_size,         \* ThreadPool::queue_size_
  queue,              \* ThreadPool::queue_ (sequence of QueueEntry)
  lock_owner,         \* who holds lock_ across actions ("none": free)
  worker,             \* the DispatchThread threads: a bag of thread records
  waiter,             \* the thread calling Wait / TimedWait
  shut,               \* the threads calling Shutdown: how many are where
  ret,                \* the call that returned in the last step, and its result
  init_spawn_failed,  \* history: CreateThreadUnlocked failed inside Init
  num_submits,        \* number of Submit calls accepted so far
  trace_refs,         \* references the queue entries hold on the Trace
  ft,                 \* the FutureTask of each accepted Submit call
  started,            \* history: task ids in the order they were dequeued
  completed,          \* history: task ids in the order their Run returned
  check_failed        \* the CHECK(queue_.empty()) of DispatchThread failed

vars == <<min_threads, max_threads, max_queue_size, pool_status, num_threads,
          active_threads, queue_size, queue, lock_owner, worker, waiter, shut,
          ret, init_spawn_failed, num_submits, trace_refs, ft,
          started, completed, check_failed>>

config == <<min_threads, max_threads, max_queue_size>>

\* ---- pure pieces of the code --------------------------------------------

\* Status::ok() of pool_status_
StatusOk(st) == st = "OK"

\* variant of IsUninitialized: Init refuses only a pool that is running
IsNotRunning(st) == st # "OK"

\* ThreadPool::Init: the pool may only be initialized once
IsUninitialized(st) == st = "Uninitialized"

\* variant of QueueFull: the limit is tested one entry too late
QueueFullOffByOne(qs, mq) == qs > mq

\* ThreadPool::Submit: size limit check
QueueFull(qs, mq) == qs = mq

\* variant of AdditionalThreads: the item being submitted is not counted
AdditionalThreadsWithoutNewItem(qs, nt, at) == qs - (nt - at)

\* ThreadPool::Submit: "Should we create another thread?"
AdditionalThreads(qs, nt, at) == (qs + 1) - (nt - at)

ShouldCreateThread(qs, nt, at, mx) == AdditionalThreads(qs, nt, at) > 0 /\ nt < mx

\* variant of Permanent: one permanent thread too few
PermanentOffByOne(nt, mn) == nt + 1 < mn

\* ThreadPool::CreateThreadUnlocked: the first few threads are permanent
Permanent(nt, mn) == nt < mn

\* variant of NotQuiescent: the active threads are not looked at
NotQuiescentQueueOnly(q, at) == q # <<>>

\* ThreadPool::Wait / TimedWait loop condition
NotQuiescent(q, at) == q # <<>> \/ at > 0

\* variant of ShutdownMustWait: Shutdown leaves the last thread behind
ShutdownWaitsForAllButOne(nt) == nt > 1

\* ThreadPool::Shutdown loop condition
ShutdownMustWait(nt) == nt > 0

\* variant of QueueFront: the newest entry is fetched
QueueBack(q) == q[Len(q)]

\* DispatchThread: queue_.front() / queue_.pop_front()
QueueFront(q) == Head(q)

\* variant of QueuePopFront: the entry fetched is left in the queue
QueuePopNothing(q) == q

QueuePopFront(q) == Tail(q)

\* Submit: queue_.push_back(e)
QueuePushBack(q, e) == Append(q, e)

\* DispatchThread: "if (--active_threads_ == 0) idle_cond_.notify_all()"
ShouldNotifyIdle(at) == at = 0

\* DispatchThread: "if (--num_threads_ == 0) no_threads_cond_.notify_all()"
ShouldNotifyNoThreads(nt) == nt = 0

\* QueueEntry: the runnable (a FutureTask, by id) and whether the entry
\* holds a reference on a Trace (e.trace is not NULL and not yet released)
QueueEntry(id, has_trace) == [id |-> id, trace |-> has_trace]

NoEntry == [id |-> 0, trace |-> FALSE]

\* number of entries of q that hold a trace reference
TraceCount(q) == Cardinality({k \in 1 .. Len(q) : q[k].trace})

\* ThreadPool::ClearQueue: release the trace reference of every entry
ClearQueueRefs(refs, q) == refs - TraceCount(q)

\* Submit: if (e.trace) e.trace->AddRef()
AddRef(refs, e) == IF e.trace THEN refs + 1 ELSE refs

\* DispatchThread: if (entry.trace) entry.trace->Release()
Release(refs, e) == IF e.trace THEN refs - 1 ELSE refs

\* ---- FutureTask ---------------------------------------------------------

\* what Task::Run() may return
TaskResults == {"OK", "RuntimeError"}

\* FutureTask::FutureTask: state_(kTaskPendingState), latch_(1); status_ is
\* a default-constructed Status (OK) and listeners_ is empty.  added counts
\* the AddListener calls made (the k-th call passes callback k) and calls
\* is the history of the callback invocations, in the order they were made.
NewFutureTask ==
  [state |-> "Pending", latch |-> 1, status |-> "OK", listeners |-> <<>>,
   added |-> 0, calls |-> <<>>]

\* callback->OnSuccess() / callback->OnFailure(st) of callback l
OnSuccess(l) == [listener |-> l, how |-> "OnSuccess", status |-> "OK"]

OnFailure(l, st) == [listener |-> l, how |-> "OnFailure", status |-> st]

\* the branch on status_.ok() of Run and of AddListener
Outcome(l, st) == IF st = "OK" THEN OnSuccess(l) ELSE OnFailure(l, st)

\* variant of NotifyAborted: the aborted task's listeners are passed over
NotifyNobody(f) == f

\* Run on an aborted task: BOOST_FOREACH over listeners_, OnFailure(s) with
\* s = Status::Aborted("Task was aborted before it ran")
NotifyAborted(f) ==
  [f EXCEPT !.calls = @ \o [k \in 1 .. Len(f.listeners) |-> OnFailure(f.listeners[k], "Aborted")]]

\* Run after task_->Run(): BOOST_FOREACH over listeners_ under lock_
NotifyDone(f) ==
  [f EXCEPT !.calls = @ \o [k \in 1 .. Len(f.listeners) |-> Outcome(f.listeners[k], f.status)]]

\* variant of StoresListener: a task aborted before it ran still stores
StoresListenerUntilFinished(f) == f.state # "Finished"

\* FutureTask::AddListener: the callback is stored unless the task is done
StoresListener(f) == f.state # "Finished" /\ f.state # "Aborted"

\* FutureTask::AddListener with the next callback
FutureAddListener(f) ==
  LET l == f.added + 1 IN
  IF StoresListener(f)
  THEN [f EXCEPT !.added = l, !.listeners = Append(@, l)]
  ELSE [f EXCEPT !.added = l, !.calls = Append(@, Outcome(l, f.status))]

\* FutureTask::set_state: refuses once the task is aborted
SetStateAllowed(f) == f.state # "Aborted"

SetState(f, s) == IF SetStateAllowed(f) THEN [f EXCEPT !.state = s] ELSE f

\* latch_.CountDown()
CountDown(f) == [f EXCEPT !.latch = IF f.latch > 0 THEN f.latch - 1 ELSE 0]

\* variant of AbortAllowed: a finished task can still be aborted
AbortIgnoresState(f, task_abort) == task_abort

\* FutureTask::Abort
AbortAllowed(f, task_abort) == f.state # "Finished" /\ task_abort

FutureAbort(f, task_abort) ==
  IF AbortAllowed(f, task_abort) THEN [f EXCEPT !.state = "Aborted"] ELSE f

\* ---- threads ------------------------------------------------------------

\* bags of thread records: a function from the records present to their count
EmptyBag == [r \in {} |-> 0]

BagAdd(B, r) == IF r \in DOMAIN B THEN [B EXCEPT ![r] = @ + 1] ELSE B @@ (r :> 1)

BagRemove(B, r) == IF B[r] > 1 THEN [B EXCEPT ![r] = @ - 1] ELSE [x \in DOMAIN B \ {r} |-> B[x]]

BagReplace(B, r, r2) == BagAdd(BagRemove(B, r), r2)

\* how many copies of r the bag holds
BagCount(B, r) == IF r \in DOMAIN B THEN B[r] ELSE 0

\* a thread that has just been created by Thread::Create, or notified on
\* not_empty_: it is about to lock lock_ at the top of the DispatchThread loop
NewThread(permanent) == [pc |-> "ready", permanent |-> permanent, entry |-> NoEntry]

\* no call returned in the last step
NoRet == [op |-> "none", val |-> "none"]

Returned(op, val) == [op |-> op, val |-> val]

\* ---- condition variables ------------------------------------------------

\* the thread is blocked in not_empty_.wait / not_empty_.timed_wait
OnNotEmpty(r) == r.pc \in {"wait", "timed_wait"}

Notified(r) == IF OnNotEmpty(r) THEN [r EXCEPT !.pc = "ready"] ELSE r

\* not_empty_.notify_all()
NotifyAllNotEmpty(wk) ==
  [y \in {Notified(x) : x \in DOMAIN wk} |->
     IF y.pc = "ready"
     THEN BagCount(wk, y) + BagCount(wk, [y EXCEPT !.pc = "wait"])
                          + BagCount(wk, [y EXCEPT !.pc = "timed_wait"])
     ELSE wk[y]]

\* stands for "no thread" where a thread record is expected
Nobody == [pc |-> "none"]

\* not_empty_.notify_one(): wakes one blocked thread if there is one
NotifyOneChoices(wk) ==
  IF \E r \in DOMAIN wk : OnNotEmpty(r) THEN {r \in DOMAIN wk : OnNotEmpty(r)} ELSE {Nobody}

NotifyOneNotEmpty(wk, r) == IF r = Nobody THEN wk ELSE BagReplace(wk, r, Notified(r))

\* idle_cond_.notify_all()
NotifyAllIdle(wt) == IF wt.pc = "waiting" THEN [wt EXCEPT !.pc = "woken"] ELSE wt

\* no_threads_cond_.notify_all()
NotifyAllNoThreads(sh) == [sh EXCEPT !.waiting = 0, !.woken = sh.woken + sh.waiting]

\* lock_ can be acquired (and the process has not died on a failed CHECK)
LockFree == lock_owner = "none" /\ ~check_failed

\* ThreadPool::CreateThreadUnlocked when Thread::Create succeeds
CreateThread(wk, nt) == BagAdd(wk, NewThread(Permanent(nt, min_threads)))

RECURSIVE CreateThreads(_, _, _)
\* the loop of ThreadPool::Init, k successful iterations starting at nt threads
CreateThreads(wk, nt, k) ==
  IF k = 0 THEN wk ELSE CreateThreads(CreateThread(wk, nt), nt + 1, k - 1)

\* ---- Init ---------------------------------------------------------------

Init ==
  /\ min_threads \in 0 .. MaxThreads
  /\ max_threads \in 1 .. MaxThreads
  /\ max_queue_size \in 1 .. MaxSubmits
  /\ pool_status = "Uninitialized"
  /\ num_threads = 0
  /\ active_threads = 0
  /\ queue_size = 0
  /\ queue = <<>>
  /\ lock_owner = "none"
  /\ worker = EmptyBag
  /\ waiter = [pc |-> "idle", kind |-> "Wait"]
  /\ shut = [idle |-> NumShutdownCallers, waiting |-> 0, woken |-> 0, returned |-> 0]
  /\ ret = NoRet
  /\ init_spawn_failed = FALSE
  /\ num_submits = 0
  /\ trace_refs = 0
  /\ ft = [i \in Ids |-> NewFutureTask]
  /\ started = <<>>
  /\ completed = <<>>
  /\ check_failed = FALSE

\* ---- ThreadPool::Init ---------------------------------------------------

\* Init on a pool that is not Uninitialized
InitAlready ==
  /\ LockFree
  /\ ~IsUninitialized(pool_status)
  /\ ret' = Returned("Init", "NotSupported")
  /\ UNCHANGED <<config, pool_status, num_threads, active_threads, queue_size, queue,
                 lock_owner, worker, waiter, shut, init_spawn_failed, num_submits,
                 trace_refs, ft, started, completed, check_failed>>

\* Init creating all min_threads_ workers
InitOk ==
  /\ LockFree
  /\ IsUninitialized(pool_status)
  /\ pool_status' = "OK"
  /\ worker' = CreateThreads(worker, num_threads, min_threads)
  /\ num_threads' = num_threads + min_threads
  /\ ret' = Returned("Init", "OK")
  /\ UNCHANGED <<config, active_threads, queue_size, queue, lock_owner, waiter, shut,
                 init_spawn_failed, num_submits, trace_refs, ft, started, completed,
                 check_failed>>

\* Init whose (k+1)-th CreateThreadUnlocked fails: it calls Shutdown() while it
\* still holds lock_.  Locking a boost::mutex its thread already owns is
\* undefined: the thread blocks on itself for ever (lock_ stays held), or
\* the lock attempt throws lock_error and Init unwinds, releasing lock_.
InitSpawnFails ==
  /\ LockFree
  /\ IsUninitialized(pool_status)
  /\ \E k \in 0 .. (min_threads - 1) :
       /\ worker' = CreateThreads(worker, num_threads, k)
       /\ num_threads' = num_threads + k
  /\ pool_status' = "OK"
  /\ init_spawn_failed' = TRUE
  /\ \/ /\ lock_owner' = "Init"
        /\ ret' = NoRet
     \/ /\ lock_owner' = "none"
        /\ ret' = Returned("Init", "lock_error")
  /\ UNCHANGED <<config, active_threads, queue_size, queue, waiter, shut, num_submits,
                 trace_refs, ft, started, completed, check_failed>>

\* ---- ThreadPool::Submit (through TaskExecutor::Submit) ------------------

\* TaskExecutor::Submit wraps the task in a new FutureTask and hands it to
\* ThreadPool::Submit; an accepted task gets the next id.  has_trace:
\* Trace::CurrentTrace() is not NULL; spawn_ok: Thread::Create succeeds if it
\* is attempted.  The queue-full error is a ServiceUnavailable status with
\* its own message, kept apart here as "QueueFull".
Submit(has_trace, spawn_ok) ==
  /\ LockFree
  /\ LET id == num_submits + 1
         e == QueueEntry(id, has_trace)
         spawn == ShouldCreateThread(queue_size, num_threads, active_threads, max_threads)
     IN
     IF ~StatusOk(pool_status) THEN
       /\ ret' = Returned("Submit", pool_status)
       /\ UNCHANGED <<worker, num_threads, queue, queue_size, trace_refs, num_submits>>
     ELSE IF QueueFull(queue_size, max_queue_size) THEN
       /\ ret' = Returned("Submit", "QueueFull")
       /\ UNCHANGED <<worker, num_threads, queue, queue_size, trace_refs, num_submits>>
     ELSE IF spawn /\ ~spawn_ok /\ num_threads = 0 THEN
       /\ ret' = Returned("Submit", "SpawnFailed")
       /\ UNCHANGED <<worker, num_threads, queue, queue_size, trace_refs, num_submits>>
     ELSE
       LET created == spawn /\ spawn_ok
           wk == IF created THEN CreateThread(worker, num_threads) ELSE worker
       IN
       /\ num_submits < MaxSubmits
       /\ num_submits' = id
       /\ num_threads' = IF created THEN num_threads + 1 ELSE num_threads
       /\ trace_refs' = AddRef(trace_refs, e)
       /\ queue' = QueuePushBack(queue, e)
       /\ queue_size' = queue_size + 1
       /\ \E n \in NotifyOneChoices(wk) : worker' = NotifyOneNotEmpty(wk, n)
       /\ ret' = Returned("Submit", "OK")
  /\ UNCHANGED <<config, pool_status, active_threads, lock_owner, waiter, shut,
                 init_spawn_failed, ft, started, completed, check_failed>>

\* ---- ThreadPool::Shutdown -----------------------------------------------

\* the test of "while (num_threads_ > 0) no_threads_cond_.wait(...)" made by
\* a caller that was at position from
ShutdownTest(from) ==
  IF ShutdownMustWait(num_threads)
  THEN /\ shut' = [shut EXCEPT ![from] = @ - 1, !.waiting = @ + 1]
       /\ ret' = NoRet
  ELSE /\ shut' = [shut EXCEPT ![from] = @ - 1, !.returned = @ + 1]
       /\ ret' = Returned("Shutdown", "void")

\* Shutdown up to its first no_threads_cond_.wait or its return
Shutdown ==
  /\ LockFree
  /\ shut.idle > 0
  /\ pool_status' = "ServiceUnavailable"
  /\ trace_refs' = ClearQueueRefs(trace_refs, queue)
  /\ queue' = <<>>
  /\ queue_size' = 0
  /\ worker' = NotifyAllNotEmpty(worker)
  /\ ShutdownTest("idle")
  /\ UNCHANGED <<config, num_threads, active_threads, lock_owner, waiter,
                 init_spawn_failed, num_submits, ft, started, completed, check_failed>>

\* Shutdown woken from no_threads_cond_.wait: re-acquires lock_, re-tests
ShutdownWoken ==
  /\ LockFree
  /\ shut.woken > 0
  /\ ShutdownTest("woken")
  /\ UNCHANGED <<config, pool_status, num_threads, active_threads, queue_size, queue,
                 lock_owner, worker, waiter, init_spawn_failed, num_submits, trace_refs,
                 ft, started, completed, check_failed>>

\* ---- ThreadPool::Wait / TimedWait ---------------------------------------

\* the loop test of Wait / TimedWait, made holding lock_
WaitTest(kind) ==
  IF NotQuiescent(queue, active_threads)
  THEN /\ waiter' = [pc |-> "waiting", kind |-> kind]
       /\ ret' = NoRet
  ELSE /\ waiter' = [pc |-> "idle", kind |-> "Wait"]
       /\ ret' = Returned(kind, "true")

unchanged_by_wait ==
  UNCHANGED <<config, pool_status, num_threads, active_threads, queue_size, queue,
              lock_owner, worker, shut, init_spawn_failed, num_submits, trace_refs,
              ft, started, completed, check_failed>>

\* a call of Wait (kind "Wait") or TimedWait (kind "TimedWait")
WaitCall(kind) ==
  /\ LockFree
  /\ waiter.pc = "idle"
  /\ WaitTest(kind)
  /\ unchanged_by_wait

\* notified on idle_cond_: re-acquires lock_ and re-tests
WaitWoken ==
  /\ LockFree
  /\ waiter.pc = "woken"
  /\ WaitTest(waiter.kind)
  /\ unchanged_by_wait

\* the deadline of idle_cond_.timed_wait passes: the thread leaves the wait
\* set and has yet to re-acquire lock_
WaitDeadline ==
  /\ waiter.pc = "waiting"
  /\ waiter.kind = "TimedWait"
  /\ waiter' = [waiter EXCEPT !.pc = "timedout"]
  /\ ret' = NoRet
  /\ unchanged_by_wait

\* timed_wait returned false: TimedWait returns false without re-testing
WaitTimedOut ==
  /\ LockFree
  /\ waiter.pc = "timedout"
  /\ waiter' = [pc |-> "idle", kind |-> "Wait"]
  /\ ret' = Returned("TimedWait", "false")
  /\ unchanged_by_wait

\* ---- ThreadPool::DispatchThread ----------------------------------------

\* the code after the loop: --num_threads_, no_threads_cond_, CHECK(queue_.empty())
ThreadExit(r, act, wtr) ==
  /\ worker' = BagRemove(worker, r)
  /\ num_threads' = num_threads - 1
  /\ shut' = IF ShouldNotifyNoThreads(num_threads - 1) THEN NotifyAllNoThreads(shut) ELSE shut
  /\ check_failed' = (ShouldNotifyNoThreads(num_threads - 1) /\ queue # <<>>)
  /\ active_threads' = act
  /\ waiter' = wtr
  /\ UNCHANGED <<queue, queue_size, started>>

\* one pass of the while (true) loop by thread r, entered holding lock_ with
\* act active threads and the Wait/TimedWait caller at wtr; it ends where the
\* thread gives lock_ up: leaving the loop, a wait on not_empty_, or the
\* unlock after fetching a task
DispatchLoop(r, act, wtr) ==
  IF ~StatusOk(pool_status) THEN
    ThreadExit(r, act, wtr)
  ELSE IF queue = <<>> THEN
    /\ worker' = BagReplace(worker, r,
                   [r EXCEPT !.pc = IF r.permanent THEN "wait" ELSE "timed_wait"])
    /\ active_threads' = act
    /\ waiter' = wtr
    /\ UNCHANGED <<queue, queue_size, num_threads, shut, started, check_failed>>
  ELSE
    /\ worker' = BagReplace(worker, r, [r EXCEPT !.pc = "adopt", !.entry = QueueFront(queue)])
    /\ queue' = QueuePopFront(queue)
    /\ queue_size' = queue_size - 1
    /\ active_threads' = act + 1
    /\ started' = Append(started, QueueFront(queue).id)
    /\ waiter' = wtr
    /\ UNCHANGED <<num_threads, shut, check_failed>>

unchanged_by_dispatch ==
  /\ ret' = NoRet
  /\ UNCHANGED <<config, pool_status, lock_owner, init_spawn_failed, num_submits,
                 trace_refs, ft, completed>>

\* a new thread, or one notified on not_empty_, acquires lock_ and loops
WorkerLoop(r) ==
  /\ LockFree
  /\ r.pc = "ready"
  /\ DispatchLoop(r, active_threads, waiter)
  /\ unchanged_by_dispatch

\* the idle timeout of not_empty_.timed_wait passes: the thread leaves the
\* wait set and has yet to re-acquire lock_ (a Submit may come in between)
WorkerTimeout(r) ==
  /\ r.pc = "timed_wait"
  /\ worker' = BagReplace(worker, r, [r EXCEPT !.pc = "timedout"])
  /\ ret' = NoRet
  /\ UNCHANGED <<config, pool_status, num_threads, active_threads, queue_size, queue,
                 lock_owner, waiter, shut, init_spawn_failed, num_submits, trace_refs,
                 ft, started, completed, check_failed>>

\* variant of TimedOutExits: the queue is not looked at again
TimedOutExitsAlways(q) == TRUE

\* timed_wait returned false: "we'll recheck the empty queue case regardless"
TimedOutExits(q) == q = <<>>

WorkerTimedOut(r) ==
  /\ LockFree
  /\ r.pc = "timedout"
  /\ IF TimedOutExits(queue)
     THEN ThreadExit(r, active_threads, waiter)
     ELSE DispatchLoop(r, active_threads, waiter)
  /\ unchanged_by_dispatch

\* outside lock_: ADOPT_TRACE and the release of the queue's trace reference
WorkerAdopt(r) ==
  /\ r.pc = "adopt"
  /\ trace_refs' = Release(trace_refs, r.entry)
  /\ worker' = BagReplace(worker, r, [r EXCEPT !.pc = "run", !.entry.trace = FALSE])
  /\ ret' = NoRet
  /\ UNCHANGED <<config, pool_status, num_threads, active_threads, queue_size, queue,
                 lock_owner, waiter, shut, init_spawn_failed, num_submits, ft, started,
                 completed, check_failed>>

unchanged_by_run ==
  /\ ret' = NoRet
  /\ UNCHANGED <<config, pool_status, num_threads, active_threads, queue_size, queue,
                 lock_owner, waiter, shut, init_spawn_failed, num_submits, trace_refs,
                 started, check_failed>>

\* FutureTask::Run up to the call of task_->Run(): set_state(kTaskRunningState);
\* on an aborted task the listeners fail, the latch is released, Run returns
RunBegin(r) ==
  /\ r.pc = "run"
  /\ LET id == r.entry.id IN
     IF SetStateAllowed(ft[id]) THEN
       /\ ft' = [ft EXCEPT ![id] = SetState(ft[id], "Running")]
       /\ worker' = BagReplace(worker, r, [r EXCEPT !.pc = "running"])
       /\ UNCHANGED completed
     ELSE
       /\ ft' = [ft EXCEPT ![id] = CountDown(NotifyAborted(ft[id]))]
       /\ worker' = BagReplace(worker, r, [r EXCEPT !.pc = "relock", !.entry = NoEntry])
       /\ completed' = Append(completed, id)
  /\ unchanged_by_run

\* task_->Run() returns result: status_ = result (written without lock_),
\* set_state(kTaskFinishedState)
RunEnd(r, result) ==
  /\ r.pc = "running"
  /\ LET id == r.entry.id IN
     /\ ft' = [ft EXCEPT ![id] = SetState([ft[id] EXCEPT !.status = result], "Finished")]
     /\ completed' = Append(completed, id)
  /\ worker' = BagReplace(worker, r, [r EXCEPT !.pc = "notify"])
  /\ unchanged_by_run

\* the rest of Run: lock_, the callbacks of the stored listeners, CountDown
RunNotify(r) ==
  /\ r.pc = "notify"
  /\ ft' = [ft EXCEPT ![r.entry.id] = CountDown(NotifyDone(ft[r.entry.id]))]
  /\ worker' = BagReplace(worker, r, [r EXCEPT !.pc = "relock", !.entry = NoEntry])
  /\ UNCHANGED completed
  /\ unchanged_by_run

\* unique_lock.lock() after the task: --active_threads_, idle_cond_, loop
WorkerRelock(r) ==
  /\ LockFree
  /\ r.pc = "relock"
  /\ LET act == active_threads - 1
         wtr == IF ShouldNotifyIdle(act) THEN NotifyAllIdle(waiter) ELSE waiter
     IN DispatchLoop(r, act, wtr)
  /\ unchanged_by_dispatch

\* ---- FutureTask::Abort, called on the Future of an accepted Submit -------

\* task_abort: what the Task's own Abort() returns
Abort(id, task_abort) ==
  /\ id <= num_submits
  /\ ft' = [ft EXCEPT ![id] = FutureAbort(ft[id], task_abort)]
  /\ ret' = Returned("Abort", IF AbortAllowed(ft[id], task_abort) THEN "true" ELSE "false")
  /\ UNCHANGED <<config, pool_status, num_threads, active_threads, queue_size, queue,
                 lock_owner, worker, waiter, shut, init_spawn_failed, num_submits,
                 trace_refs, started, completed, check_failed>>

\* ---- FutureTask::AddListener, called on the Future of an accepted Submit -

AddListener(id) ==
  /\ id <= num_submits
  /\ ft[id].added < MaxListeners
  /\ ft' = [ft EXCEPT ![id] = FutureAddListener(ft[id])]
  /\ ret' = Returned("AddListener", "void")
  /\ UNCHANGED <<config, pool_status, num_threads, active_threads, queue_size, queue,
                 lock_owner, worker, waiter, shut, init_spawn_failed, num_submits,
                 trace_refs, started, completed, check_failed>>

\* ---- specifications -----------------------------------------------------

\* a step of one of the threads whose record is r
WorkerStep(r) ==
  \/ WorkerLoop(r)
  \/ WorkerTimeout(r)
  \/ WorkerTimedOut(r)
  \/ WorkerAdopt(r)
  \/ RunBegin(r)
  \/ RunEnd(r, "OK")
  \/ RunNotify(r)
  \/ WorkerRelock(r)

Workers == \E r \in DOMAIN worker : WorkerStep(r)

\* The pool and its callers.  The tasks return OK, and Future::Abort and
\* Future::AddListener are not called: these write ft only, which the pool
\* reads nowhere but in FutureTask::Run.  FutureNext and ListenerNext add them.
Next ==
  \/ InitAlready
  \/ InitOk
  \/ InitSpawnFails
  \/ \E has_trace \in BOOLEAN, spawn_ok \in BOOLEAN : Submit(has_trace, spawn_ok)
  \/ Shutdown
  \/ ShutdownWoken
  \/ \E kind \in {"Wait", "TimedWait"} : WaitCall(kind)
  \/ WaitWoken
  \/ WaitDeadline
  \/ WaitTimedOut
  \/ Workers

Spec == Init /\ [][Next]_vars

\* the pool, its callers and the holders of the Futures
FutureNext ==
  \/ Next
  \/ \E id \in Ids : \E task_abort \in BOOLEAN : Abort(id, task_abort)

FutureSpec == Init /\ [][FutureNext]_vars

\* Scheduling: a thread that can take a step eventually takes it (a live
\* worker keeps running, its idle timer fires, a notified thread gets lock_
\* when it is free).  Calls made from outside (Init, Submit, Shutdown, Wait,
\* TimedWait, Abort) and the deadline of a TimedWait caller are under no
\* obligation.  The workers take finitely many steps between two calls
\* from outside, so fairness for the workers as a whole is fairness for each.
Fairness ==
  /\ WF_vars(Workers)
  /\ WF_vars(ShutdownWoken)
  /\ WF_vars(WaitWoken \/ WaitTimedOut)

FairSpec == Spec /\ Fairness

FutureFairSpec == FutureSpec /\ Fairness

\* An executor made by TaskExecutor::CreateNew(name, max_threads), which
\* builds its pool with min_threads 0, and one task submitted to it: the
\* submitter, the workers, the callers of Shutdown and the holders of the
\* task's Future, who call Abort and AddListener; the task returns OK or an
\* error.  FutureTasks share nothing, so one of them is followed.
ListenerInit ==
  /\ Init
  /\ min_threads = 0
  /\ max_queue_size = MaxSubmits

\* the FutureTask that is followed: the one of the first accepted Submit
Observed == 1

SubmitObserved ==
  /\ num_submits < Observed
  /\ \E has_trace \in BOOLEAN, spawn_ok \in BOOLEAN : Submit(has_trace, spawn_ok)

TaskFails == \E r \in DOMAIN worker : RunEnd(r, "RuntimeError")

ListenerNext ==
  \/ InitOk
  \/ SubmitObserved
  \/ Shutdown
  \/ ShutdownWoken
  \/ Workers
  \/ TaskFails
  \/ \E task_abort \in BOOLEAN : Abort(Observed, task_abort)
  \/ AddListener(Observed)

ListenerSpec == ListenerInit /\ [][ListenerNext]_vars

\* A pool built with min_threads 0, its submitters, its workers and the
\* callers of Shutdown, under the scheduling of Fairness
ReapInit ==
  /\ Init
  /\ min_threads = 0

ReapNext ==
  \/ InitAlready
  \/ InitOk
  \/ \E has_trace \in BOOLEAN, spawn_ok \in BOOLEAN : Submit(has_trace, spawn_ok)
  \/ Shutdown
  \/ ShutdownWoken
  \/ Workers

ReapFairSpec == ReapInit /\ [][ReapNext]_vars /\ Fairness

\* The pool, its submitters, its workers and the callers of Shutdown when
\* Thread::Create never fails
SpawnOkNext ==
  \/ InitAlready
  \/ InitOk
  \/ \E has_trace \in BOOLEAN : Submit(has_trace, TRUE)
  \/ Shutdown
  \/ ShutdownWoken
  \/ Workers

SpawnOkSpec == Init /\ [][SpawnOkNext]_vars

\* ---- properties -----------------------------------------------------------

\* the queue is empty and no worker is running a task
Quiescent == queue = <<>> /\ active_threads = 0

\* some call of Shutdown has returned
ShutdownReturned == shut.returned > 0

\* the Future is Finished or Aborted and its latch is released
Terminal(f) == f.state \in {"Finished", "Aborted"} /\ f.latch = 0

\* the caller of Wait is blocked on idle_cond_, or notified and not yet back
WaitBlocked == waiter.kind = "Wait" /\ waiter.pc \in {"waiting", "woken"}

\* C1: under fair scheduling, with tasks that terminate, the Future of every
\* accepted Submit eventually is Finished or Aborted with its latch released.
\* Violated: Shutdown's ClearQueue drops queued tasks without running or
\* aborting them, and their Futures stay Pending with the latch at 1.
AcceptedFutureCompletes == \A i \in Ids : (i <= num_submits) ~> Terminal(ft[i])

AfterShutdownReturns ==
  /\ [](ShutdownReturned =>
          /\ num_threads = 0
          /\ queue = <<>>
          /\ queue_size = 0
          /\ trace_refs = 0)
  /\ [][ShutdownReturned =>
          /\ started' = started
          /\ \A i \in Ids : ft'[i].state = "Running" => ft[i].state = "Running"]_vars

\* Shutdown has just returned on a pool that had accepted two tasks, one of
\* them dequeued by a worker and the other dropped from the queue
ShutdownReturnedAfterWork ==
  /\ ret.op = "Shutdown"
  /\ num_submits = 2
  /\ Len(started) = 1

\* C4: tasks are dequeued in the order their Submits were accepted; with a
\* single worker they also complete in that order.
FifoOrder ==
  /\ \A k \in 1 .. Len(started) : started[k] = k
  /\ (max_threads = 1 /\ min_threads <= 1) =>
       \A k \in 1 .. Len(completed) : completed[k] = k

\* a single-worker pool runs the first task while the second is queued
SecondQueuedBehindFirst ==
  /\ max_threads = 1
  /\ min_threads <= 1
  /\ started = <<1>>
  /\ Len(queue) = 1
  /\ queue[1].id = 2

\* C5: 0 <= active_threads <= num_threads <= max_threads in every state.
\* Violated: the builder accepts min_threads > max_threads and Init then
\* creates min_threads workers.
ThreadCountsBounded ==
  /\ 0 <= active_threads
  /\ active_threads <= num_threads
  /\ num_threads <= max_threads

\* C6: when a worker cannot be created during Init, the pool is shut down
\* (ServiceUnavailable, no threads left) and Init returns the failure.
\* Violated: Init calls Shutdown while holding lock_, which Shutdown locks
\* again; the status stays OK and the failure is never returned.
InitFailureShutsDown ==
  init_spawn_failed =>
    /\ lock_owner = "none"
    /\ pool_status = "ServiceUnavailable"
    /\ num_threads = 0
    /\ ret.op = "Init" => ret.val = "SpawnFailed"

\* C7: when Wait returns, or TimedWait returns true, the queue is empty and
\* active_threads is 0; and a quiescent pool stays quiescent through every
\* step that accepts no Submit.
WaitReturnsQuiescent ==
  /\ []((ret.op \in {"Wait", "TimedWait"} /\ ret.val = "true") => Quiescent)
  /\ [][(Quiescent /\ num_submits' = num_submits) => Quiescent']_vars

\* Wait has just returned on a running pool whose workers completed two tasks
WaitReturnedAfterWork ==
  /\ ret = Returned("Wait", "true")
  /\ pool_status = "OK"
  /\ Len(completed) = 2

\* C8: a caller blocked in Wait does not stay blocked for ever while the
\* pool stays quiescent.
\* Violated: Shutdown empties the queue without notifying idle_cond_, and
\* with no active worker nobody ever notifies it.
BlockedWaitReturns == []<>~(Quiescent /\ WaitBlocked)

\* C9: when TimedWait returns false, the queue is non-empty or a worker is
\* active.
\* Violated: after its timed_wait times out, TimedWait returns false without
\* testing the condition again, though the pool may have become quiescent
\* before it re-acquired lock_.
TimedWaitFalseOnlyWhenBusy ==
  ret = Returned("TimedWait", "false") => (queue # <<>> \/ active_threads > 0)

\* C10: a pool whose status is ServiceUnavailable keeps that status; an Init
\* on it fails and changes nothing; every Shutdown that returns, the first
\* or a later one, returns with no threads and an empty queue.
ShutDownIsFinal ==
  /\ [][pool_status = "ServiceUnavailable" =>
          /\ pool_status' = "ServiceUnavailable"
          /\ ret'.op = "Init" =>
               /\ ret'.val = "NotSupported"
               /\ num_threads' = num_threads
               /\ queue' = queue]_vars
  /\ [](ret.op = "Shutdown" =>
          /\ pool_status = "ServiceUnavailable"
          /\ num_threads = 0
          /\ queue = <<>>)

\* Init is refused on a pool that accepted work and on which every caller
\* of Shutdown has returned
InitRefusedAfterTwoShutdowns ==
  /\ ret = Returned("Init", "NotSupported")
  /\ shut.returned = NumShutdownCallers
  /\ num_submits >= 1

\* the elements of a sequence
Range(q) == {q[k] : k \in 1 .. Len(q)}

\* the count of r dropped in this step: the thread left DispatchThread
Exited(r) == num_threads' < num_threads /\ BagCount(worker', r) < BagCount(worker, r)

\* C11: after a successful Init and until Shutdown is called, num_threads
\* is at least min_threads; a permanent worker never waits with a timeout
\* and leaves DispatchThread only when the pool status is not OK.
PermanentWorkersStay ==
  /\ []((pool_status = "OK" /\ ~init_spawn_failed) => num_threads >= min_threads)
  /\ [](\A r \in DOMAIN worker : r.permanent => r.pc \notin {"timed_wait", "timedout"})
  /\ [][\A r \in DOMAIN worker : (r.permanent /\ Exited(r)) => pool_status # "OK"]_vars

\* a pool with one permanent worker ran two tasks at the same time (the
\* second finished first), and the extra worker has since timed out
ExtraWorkerReaped ==
  /\ min_threads = 1
  /\ pool_status = "OK"
  /\ completed = <<2, 1>>
  /\ num_threads = 1

\* a step in which a Submit returns on a running pool built with
\* min_threads 0 that has no thread
SubmitsAfterReaping ==
  /\ min_threads = 0
  /\ pool_status = "OK"
  /\ num_threads = 0
  /\ ret'.op = "Submit"

\* the Submit of the step is accepted and has created the thread for its task
AcceptedWithNewThread ==
  /\ ret'.val = "OK"
  /\ num_threads' = 1
  /\ Len(queue') = 1

\* with min_threads 0 the workers are all reaped in the end
AllWorkersReaped == (min_threads = 0) ~> (num_threads = 0)

\* an accepted task is run if the pool stays running
AcceptedTaskRuns ==
  \A i \in Ids : (i <= num_submits) ~> (i \in Range(started) \/ pool_status # "OK")

CallCount(f, l) == Cardinality({k \in 1 .. Len(f.calls) : f.calls[k].listener = l})

\* the callbacks passed to AddListener on f so far
Added(f) == 1 .. f.added

\* a thread is inside task_->Run() of task i, or past it and not yet at
\* the callbacks
RunInProgress(i) == \E r \in DOMAIN worker : r.entry.id = i /\ r.pc \in {"running", "notify"}

\* the step is a Run of task i that finds it aborted and does not run it
AbortedRunStep(i) ==
  /\ ft[i].state = "Aborted"
  /\ ft[i].latch = 1
  /\ ft'[i].latch = 0
  /\ ~RunInProgress(i)

\* C13: the state of a FutureTask changes from Pending to Running, from
\* Running to Finished, or to Aborted in an Abort that returns true; an
\* Abort that returns true found a state other than Finished and leaves
\* Aborted, one that returns false changes nothing; Aborted and, under
\* Abort, Finished are never left.
FutureStateMachine ==
  [][\A i \in Ids :
       LET a == ft[i].state
           b == ft'[i].state
           aborting == i = Observed /\ ret'.op = "Abort"
       IN
       /\ a # b => \/ a = "Pending" /\ b = "Running"
                   \/ a = "Running" /\ b = "Finished"
                   \/ b = "Aborted" /\ aborting /\ ret'.val = "true"
       /\ (aborting /\ ret'.val = "true") => (a # "Finished" /\ b = "Aborted")
       /\ (aborting /\ ret'.val = "false") => b = a
       /\ (aborting /\ a = "Finished") => (ret'.val = "false" /\ b = "Finished")
       /\ a = "Aborted" => b = "Aborted"]_vars

\* the task was aborted while it ran and its Run has returned an error:
\* set_state(kTaskFinishedState) was refused and the state is still Aborted
AbortedWhileRunningStaysAborted ==
  /\ ft[Observed].state = "Aborted"
  /\ ft[Observed].status = "RuntimeError"
  /\ ft[Observed].latch = 0

\* C14: a Run that finds its FutureTask aborted does not run the task (the
\* state stays Aborted and status_ is not written), and
\* when it returns every callback passed to AddListener before it has
\* received OnFailure with the Aborted status, none OnSuccess, and the
\* latch is released.
\* Violated: AddListener on a task that is already Aborted calls the
\* callback at once, with the status_ the task was constructed with: OK.
AbortedRunFailsListeners ==
  [][\A i \in Ids : AbortedRunStep(i) =>
       /\ ft'[i].state = "Aborted"
       /\ ft'[i].status = ft[i].status
       /\ \A l \in Added(ft[i]) :
            /\ OnFailure(l, "Aborted") \in Range(ft'[i].calls)
            /\ OnSuccess(l) \notin Range(ft'[i].calls)]_vars

\* C15: every callback invocation matches the status of its Future
\* (OnSuccess if and only if it is OK, else OnFailure with it), so that
\* the callbacks of one Future all receive the same outcome.
\* Violated: the Run of an aborted task calls OnFailure(Aborted) but does
\* not store that status: status_ stays OK, and AddListener calls OnSuccess.
ListenersSeeFutureStatus ==
  \A i \in Ids :
    /\ \A c \in Range(ft[i].calls) : c = Outcome(c.listener, ft[i].status)
    /\ \A c, d \in Range(ft[i].calls) : c.how = d.how /\ c.status = d.status

\* C16: each callback passed to AddListener is invoked at most once, and
\* exactly once when the Run of the task has returned; a callback is
\* either stored for Run or invoked by AddListener, not both.
ListenersFiredOnce ==
  \A i \in Ids : \A l \in 1 .. MaxListeners :
    /\ CallCount(ft[i], l) <= 1
    /\ l \notin Added(ft[i]) => CallCount(ft[i], l) = 0
    /\ (l \in Added(ft[i]) /\ ft[i].latch = 0) => CallCount(ft[i], l) = 1
    /\ (l \in Range(ft[i].listeners) /\ ft[i].latch = 1) => CallCount(ft[i], l) = 0

\* Run has returned on a task with one callback stored before and one
\* passed after it was done
StoredAndLateListenerFired ==
  /\ ft[Observed].latch = 0
  /\ ft[Observed].added = 2
  /\ ft[Observed].listeners = <<1>>
  /\ Len(ft[Observed].calls) = 2

\* C17: the callbacks of one FutureTask are invoked in the order in which
\* they were passed to AddListener.
\* Violated: Run gives lock_ up between set_state(kTaskFinishedState) and
\* the callbacks; an AddListener made there invokes its callback before
\* the stored ones.
ListenersFiredInOrder ==
  \A i \in Ids : \A j, k \in 1 .. Len(ft[i].calls) :
    j < k => ft[i].calls[j].listener < ft[i].calls[k].listener

\* C19: no callback is invoked before the Run of its task has returned
\* from the task (or has found the task aborted).
\* Violated: AddListener on a task that was aborted and not run yet, or
\* aborted while it runs, invokes the callback at once.
NoCallbackBeforeRunReturns ==
  [][\A i \in Ids : ft'[i].calls # ft[i].calls => i \in Range(completed')]_vars

\* C18: queue_size is the number of entries of the queue, and it never
\* exceeds max_queue_size.
QueueSizeMirrorsQueue ==
  /\ queue_size = Len(queue)
  /\ Len(queue) <= max_queue_size

\* a Submit has just filled a queue of two entries
QueueFilledToLimit ==
  /\ ret = Returned("Submit", "OK")
  /\ Len(queue) = 2
  /\ max_queue_size = 2
  /\ num_threads >= 1

\* C20: the CHECK(queue_.empty()) of an exiting worker never fails, the
\* queue is empty whenever there is no thread, and a running pool with a
\* non-empty queue has a thread.
NoWorkLeftBehind ==
  /\ ~check_failed
  /\ num_threads = 0 => queue = <<>>
  /\ (pool_status = "OK" /\ queue # <<>>) => num_threads >= 1

\* the only worker's timed wait has timed out, and a Submit has enqueued a
\* task before the worker re-acquired lock_
TimedOutWithWorkQueued ==
  /\ num_threads = 1
  /\ queue # <<>>
  /\ pool_status = "OK"
  /\ \E r \in DOMAIN worker : r.pc = "timedout"

\* C21: the latch of a FutureTask is released once, by the end of its Run
\* and not before, never armed again, and when it is released every
\* callback stored in listeners_ has been invoked - whether the task
\* returned OK, returned an error or was found aborted.
LatchReleasedAfterListeners ==
  /\ [](\A i \in Ids :
          /\ ft[i].latch \in {0, 1}
          /\ ft[i].latch = 0 <=> (i \in Range(completed) /\ ~RunInProgress(i))
          /\ ft[i].latch = 0 => \A l \in Range(ft[i].listeners) : CallCount(ft[i], l) = 1)
  /\ [][\A i \in Ids : ft[i].latch = 0 => ft'[i].latch = 0]_vars

\* the Run of a task aborted before it ran has failed its two stored
\* callbacks and released the latch
AbortedRunReleasedLatch ==
  /\ ft[Observed].latch = 0
  /\ ft[Observed].listeners = <<1, 2>>
  /\ ft[Observed].calls = <<OnFailure(1, "Aborted"), OnFailure(2, "Aborted")>>

\* C22: when Thread::Create never fails, a running pool has an idle worker
\* for every queued entry or has max_threads threads or more; so with more
\* than max_threads tasks queued or running it has exactly max_threads.
\* Violated: a pool built with min_threads > max_threads (see C5) has
\* min_threads threads from Init on.
ThreadsGrowToMax ==
  pool_status = "OK" =>
    /\ queue_size <= num_threads - active_threads \/ num_threads >= max_threads
    /\ active_threads + queue_size > max_threads => num_threads = max_threads

\* C23: once the latch of a FutureTask is released its listeners_ is empty.
\* Violated: Run invokes the stored callbacks and leaves them in listeners_.
ListenersDrained == \A i \in Ids : ft[i].latch = 0 => ft[i].listeners = <<>>

====
